---- MODULE Spec2Model ----
(***************************************************************************)
(* A model of project.py: the Streamlit video transcriber.                 *)
(*                                                                         *)
(*   load_whisper_model   the st.cache_resource-memoized WhisperModel      *)
(*   transcribe_video     the adapter: decode, drain the segments, join    *)
(*   main                 the script run: stage the upload in a temporary  *)
(*                        file, obtain the model, transcribe, display,     *)
(*                        and unlink the temporary file in a finally       *)
(*                                                                         *)
(* Text is a sequence of one-character strings, so that str.strip, the     *)
(* f-strings and the segment concatenation are computed, not assumed.      *)
(* Every session runs main once per click on "Transcribe Video"; sessions  *)
(* share the process: the filesystem and the st.cache_resource cache.      *)
(***************************************************************************)
EXTENDS Naturals, Sequences, FiniteSets

(* ----------------------------- bounds ---------------------------------- *)

\* Sessions of the concurrent specification (browser tabs on one process).
NumSessions == 2
\* Clicks on "Transcribe Video" explored, over all sessions together.
MaxRequests == 2
\* Segments the model may emit in one call before the sequence ends.
MaxSegs == 2

Sessions == 1..NumSessions
\* Names tempfile may draw: one per request, so a free name always exists.
Paths == 1..MaxRequests

(* ------------------------------ text ----------------------------------- *)

\* Characters str.strip() removes (the ones that occur in this model).
Whitespace == {" ", "\n"}

RECURSIVE lstrip(_)
lstrip(t) ==
    IF t # <<>> /\ Head(t) \in Whitespace THEN lstrip(Tail(t)) ELSE t

RECURSIVE rstrip(_)
rstrip(t) ==
    IF t # <<>> /\ t[Len(t)] \in Whitespace
    THEN rstrip(SubSeq(t, 1, Len(t) - 1))
    ELSE t

\* str.strip(): the text without its leading and trailing whitespace.
strip(t) == rstrip(lstrip(t))

\* Segment texts the model may emit: an empty segment, a segment with the
\* leading space Whisper puts before a word, a bare word, and two words.
SegTexts == { <<>>, <<" ", "a">>, <<"b">>, <<"a", " ", "b">> }

\* Exception classes the libraries raise (all derive from Exception) and
\* the messages str(e) they carry; an exception may have an empty message.
RuntimeErrorName == <<"R", "u", "n", "t", "i", "m", "e", "E", "r", "r", "o", "r">>
OSErrorName == <<"O", "S", "E", "r", "r", "o", "r">>
ExcTypes == { RuntimeErrorName, OSErrorName }
Msgs == { <<>>, <<"e">> }
Exceptions == { [type |-> t, msg |-> m] : t \in ExcTypes, m \in Msgs }
\* The one exception of the concurrent specification.
ConcExceptions == { [type |-> OSErrorName, msg |-> <<"e">>] }
\* No exception pending.
NoExc == [type |-> <<>>, msg |-> <<>>]

\* traceback.format_exc() of the exception being handled: the header, the
\* frames (their text depends on the installation and is left out) and the
\* final line "Type: message", or "Type" alone for an empty message.
TracebackHeader ==
    <<"T", "r", "a", "c", "e", "b", "a", "c", "k", " ", "(", "m", "o", "s",
      "t", " ", "r", "e", "c", "e", "n", "t", " ", "c", "a", "l", "l", " ",
      "l", "a", "s", "t", ")", ":", "\n">>
format_exc(e) ==
    TracebackHeader
    \o (IF e.msg = <<>> THEN e.type ELSE e.type \o <<":", " ">> \o e.msg)
    \o <<"\n">>

\* f"Transcription failed: {e}\n{tb}"
TranscriptionFailedPrefix ==
    <<"T", "r", "a", "n", "s", "c", "r", "i", "p", "t", "i", "o", "n", " ",
      "f", "a", "i", "l", "e", "d", ":", " ">>
tv_diagnostic(e) ==
    TranscriptionFailedPrefix \o e.msg \o <<"\n">> \o format_exc(e)

\* f"Transcription Failed:\n{transcript_text}"
MainFailedPrefix ==
    <<"T", "r", "a", "n", "s", "c", "r", "i", "p", "t", "i", "o", "n", " ",
      "F", "a", "i", "l", "e", "d", ":", "\n">>
main_failure_message(text) == MainFailedPrefix \o text

\* f"An unexpected error occurred: {e}"
UnexpectedPrefix ==
    <<"A", "n", " ", "u", "n", "e", "x", "p", "e", "c", "t", "e", "d", " ",
      "e", "r", "r", "o", "r", " ", "o", "c", "c", "u", "r", "r", "e", "d",
      ":", " ">>
unexpected_message(e) == UnexpectedPrefix \o e.msg

\* file_name="transcript.txt"
TranscriptFileName ==
    <<"t", "r", "a", "n", "s", "c", "r", "i", "p", "t", ".", "t", "x", "t">>

(* ------------------------------ state ---------------------------------- *)

VARIABLES
    pc,             \* each session's position in main
    requests,       \* clicks on "Transcribe Video" so far, all sessions
    req,            \* each session's current request number (0: none yet)
    fs,             \* the temporary directory: a set of file records
    video_path,     \* main's video_path (0: not bound)
    cache,          \* st.cache_resource's entry for load_whisper_model (0: none)
    lock,           \* the cache's compute lock (0: free, else the holder)
    constructions,  \* WhisperModel objects constructed so far
    model,          \* main's model (0: not bound)
    segments,       \* the segments the model has emitted in this call
    tv_text,        \* transcribe_video's local transcript_text
    tv_outcome,     \* "none", "running", "returned" or "raised"
    tv_exc,         \* the exception raised inside the call (NoExc: none)
    tv_calls,       \* calls of transcribe_video in this request
    decode_calls,   \* calls of model.transcribe in this request
    transcribe_ok,  \* main's transcribe_ok
    transcript_text,\* main's transcript_text
    ui,             \* what this script run has put on the page
    exc,            \* the exception main last saw raised (NoExc: none)
    raised_at       \* where it was raised: "none", "stage", "load", "tv",
                    \* "display" or "unlink"

shared == <<requests, fs, cache, lock, constructions>>
tvars == <<segments, tv_text, tv_outcome, tv_exc, tv_calls, decode_calls>>
mvars == <<req, video_path, model, transcribe_ok, transcript_text, ui, exc,
           raised_at>>
vars == <<pc, shared, tvars, mvars>>

\* The bytes of the upload of session s's n-th request: uploaded_file.getvalue().
Upload(s, n) == <<s, n>>

NoTextArea == [shown |-> FALSE, value |-> <<>>]
NoDownload == [shown |-> FALSE, data |-> <<>>, file_name |-> <<>>]
EmptyPage ==
    [errors |-> <<>>, success |-> FALSE, text_area |-> NoTextArea,
     download |-> NoDownload]

Init ==
    /\ pc = [s \in Sessions |-> "idle"]
    /\ requests = 0
    /\ req = [s \in Sessions |-> 0]
    /\ fs = {}
    /\ video_path = [s \in Sessions |-> 0]
    /\ cache = 0
    /\ lock = 0
    /\ constructions = 0
    /\ model = [s \in Sessions |-> 0]
    /\ segments = [s \in Sessions |-> <<>>]
    /\ tv_text = [s \in Sessions |-> <<>>]
    /\ tv_outcome = [s \in Sessions |-> "none"]
    /\ tv_exc = [s \in Sessions |-> NoExc]
    /\ tv_calls = [s \in Sessions |-> 0]
    /\ decode_calls = [s \in Sessions |-> 0]
    /\ transcribe_ok = [s \in Sessions |-> FALSE]
    /\ transcript_text = [s \in Sessions |-> <<>>]
    /\ ui = [s \in Sessions |-> EmptyPage]
    /\ exc = [s \in Sessions |-> NoExc]
    /\ raised_at = [s \in Sessions |-> "none"]

(* --------------------------- the filesystem ---------------------------- *)

\* os.path.exists(p)
os_path_exists(files, p) == \E f \in files : f.path = p

\* A cleanup that removes nothing.
os_unlink_noop(files, p) == files

\* os.unlink(p): the directory without the file of that name.
os_unlink(files, p) == { f \in files : f.path # p }

\* A staging that takes any name, in use or not.
NamedTemporaryFile_any(files) == Paths

\* The names tempfile.NamedTemporaryFile may create: it opens with O_EXCL,
\* so only a name no file has.
NamedTemporaryFile(files) == { p \in Paths : ~os_path_exists(files, p) }

\* The directory after bytes b are written to the file named p.
write_file(files, p, b, whole) ==
    os_unlink(files, p) \cup { [path |-> p, bytes |-> b, complete |-> whole] }

(* ------------------- main: the click and the staging ------------------- *)

\* Line 59: the script run in which st.button returns True. The run starts
\* from an empty page and main's locals are unbound.
Click(s) ==
    /\ pc[s] \in {"idle", "returned", "raised"}
    /\ requests < MaxRequests
    /\ requests' = requests + 1
    /\ req' = [req EXCEPT ![s] = requests + 1]
    /\ pc' = [pc EXCEPT ![s] = "stage"]
    /\ video_path' = [video_path EXCEPT ![s] = 0]
    /\ model' = [model EXCEPT ![s] = 0]
    /\ segments' = [segments EXCEPT ![s] = <<>>]
    /\ tv_text' = [tv_text EXCEPT ![s] = <<>>]
    /\ tv_outcome' = [tv_outcome EXCEPT ![s] = "none"]
    /\ tv_exc' = [tv_exc EXCEPT ![s] = NoExc]
    /\ tv_calls' = [tv_calls EXCEPT ![s] = 0]
    /\ decode_calls' = [decode_calls EXCEPT ![s] = 0]
    /\ transcribe_ok' = [transcribe_ok EXCEPT ![s] = FALSE]
    /\ transcript_text' = [transcript_text EXCEPT ![s] = <<>>]
    /\ ui' = [ui EXCEPT ![s] = EmptyPage]
    /\ exc' = [exc EXCEPT ![s] = NoExc]
    /\ raised_at' = [raised_at EXCEPT ![s] = "none"]
    /\ UNCHANGED <<fs, cache, lock, constructions>>

\* Lines 61-63: the temporary file is created (delete=False), the upload is
\* written to it, and its name is bound to video_path.
Stage(s) ==
    /\ pc[s] = "stage"
    /\ \E p \in NamedTemporaryFile(fs) :
        /\ fs' = write_file(fs, p, Upload(s, req[s]), TRUE)
        /\ video_path' = [video_path EXCEPT ![s] = p]
    /\ pc' = [pc EXCEPT ![s] = "load"]
    /\ UNCHANGED <<requests, cache, lock, constructions, tvars, req, model,
                   transcribe_ok, transcript_text, ui, exc, raised_at>>

\* Line 61 raises (no temporary directory, no space for the entry): no file
\* is created. The with statement is outside the try of line 65, so the
\* exception leaves main.
StageCreateFails(s, e) ==
    /\ pc[s] = "stage"
    /\ pc' = [pc EXCEPT ![s] = "raised"]
    /\ exc' = [exc EXCEPT ![s] = e]
    /\ raised_at' = [raised_at EXCEPT ![s] = "stage"]
    /\ UNCHANGED <<shared, tvars, req, video_path, model, transcribe_ok,
                   transcript_text, ui>>

\* Line 62 raises (the disk fills up): the file exists, holding part of the
\* upload; leaving the with block closes it and, with delete=False, keeps
\* it. video_path is never bound and the exception leaves main.
StageWriteFails(s, e) ==
    /\ pc[s] = "stage"
    /\ \E p \in NamedTemporaryFile(fs) :
        fs' = write_file(fs, p, Upload(s, req[s]), FALSE)
    /\ pc' = [pc EXCEPT ![s] = "raised"]
    /\ exc' = [exc EXCEPT ![s] = e]
    /\ raised_at' = [raised_at EXCEPT ![s] = "stage"]
    /\ UNCHANGED <<requests, cache, lock, constructions, tvars, req,
                   video_path, model, transcribe_ok, transcript_text, ui>>

(* --------------------- load_whisper_model (line 66) -------------------- *)

\* The entry st.cache_resource finds when the call starts.
cache_lookup(c) == c

\* A cache that does not look again under the lock.
cache_recheck_skipped(c) == 0

\* The entry it finds again once it holds the compute lock.
cache_recheck(c) == c

\* The call finds the cached model, or goes on to take the compute lock.
LoadLookup(s) ==
    /\ pc[s] = "load"
    /\ IF cache_lookup(cache) # 0
       THEN /\ model' = [model EXCEPT ![s] = cache_lookup(cache)]
            /\ pc' = [pc EXCEPT ![s] = "tv_call"]
       ELSE /\ pc' = [pc EXCEPT ![s] = "load_lock"]
            /\ UNCHANGED model
    /\ UNCHANGED <<shared, tvars, req, video_path, transcribe_ok,
                   transcript_text, ui, exc, raised_at>>

LoadAcquire(s) ==
    /\ pc[s] = "load_lock"
    /\ lock = 0
    /\ lock' = s
    /\ pc' = [pc EXCEPT ![s] = "load_compute"]
    /\ UNCHANGED <<requests, fs, cache, constructions, tvars, mvars>>

\* Under the lock: another session may have stored the model meanwhile;
\* otherwise the function body runs, WhisperModel("base", device="cpu",
\* compute_type="int8") is constructed and stored. The lock is released.
LoadCompute(s) ==
    /\ pc[s] = "load_compute"
    /\ lock = s
    /\ IF cache_recheck(cache) # 0
       THEN /\ model' = [model EXCEPT ![s] = cache_recheck(cache)]
            /\ UNCHANGED <<cache, constructions>>
       ELSE /\ constructions' = constructions + 1
            /\ cache' = constructions + 1
            /\ model' = [model EXCEPT ![s] = constructions + 1]
    /\ lock' = 0
    /\ pc' = [pc EXCEPT ![s] = "tv_call"]
    /\ UNCHANGED <<requests, fs, tvars, req, video_path, transcribe_ok,
                   transcript_text, ui, exc, raised_at>>

\* The constructor raises (the weights cannot be fetched or read): nothing
\* is stored, the lock is released and the exception reaches main's except.
LoadComputeFails(s, e) ==
    /\ pc[s] = "load_compute"
    /\ lock = s
    /\ cache_recheck(cache) = 0
    /\ lock' = 0
    /\ exc' = [exc EXCEPT ![s] = e]
    /\ raised_at' = [raised_at EXCEPT ![s] = "load"]
    /\ pc' = [pc EXCEPT ![s] = "except"]
    /\ UNCHANGED <<requests, fs, cache, constructions, tvars, req,
                   video_path, model, transcribe_ok, transcript_text, ui>>

(* --------------------- transcribe_video (lines 15-34) ------------------ *)

\* An accumulation without the separating space.
append_segment_unseparated(acc, text) == acc \o text

\* Line 28: transcript_text += segment.text + " "
append_segment(acc, text) == acc \o text \o <<" ">>

\* A handler for one class only.
tv_catches_RuntimeError(e) == e.type = RuntimeErrorName

\* Line 32: except Exception catches every class that derives from it.
tv_catches(e) == e.type \in ExcTypes

\* A handler that returns what was accumulated before the exception.
tv_failure_partial(e, acc) == [ok |-> TRUE, text |-> strip(acc)]

\* Lines 33-34: the failure outcome; the text accumulated so far is dropped.
tv_failure(e, acc) == [ok |-> FALSE, text |-> tv_diagnostic(e)]

\* Line 30: the success outcome.
tv_success(acc) == [ok |-> TRUE, text |-> strip(acc)]

\* The call returns outcome r to line 71 of main.
TvReturn(s, r) ==
    /\ tv_outcome' = [tv_outcome EXCEPT ![s] = "returned"]
    /\ transcribe_ok' = [transcribe_ok EXCEPT ![s] = r.ok]
    /\ transcript_text' = [transcript_text EXCEPT ![s] = r.text]
    /\ pc' = [pc EXCEPT ![s] = "check"]
    /\ UNCHANGED <<exc, raised_at>>

\* Exception e is raised inside the try of line 17: the handler of line 32
\* turns it into a failure outcome; an exception it does not catch leaves
\* the call and reaches main's except.
TvHandle(s, e) ==
    /\ tv_exc' = [tv_exc EXCEPT ![s] = e]
    /\ IF tv_catches(e)
       THEN TvReturn(s, tv_failure(e, tv_text[s]))
       ELSE
         /\ tv_outcome' = [tv_outcome EXCEPT ![s] = "raised"]
         /\ exc' = [exc EXCEPT ![s] = e]
         /\ raised_at' = [raised_at EXCEPT ![s] = "tv"]
         /\ pc' = [pc EXCEPT ![s] = "except"]
         /\ UNCHANGED <<transcribe_ok, transcript_text>>

\* Lines 20-26: model.transcribe returns the lazy segment sequence.
TvCall(s) ==
    /\ pc[s] = "tv_call"
    /\ tv_calls' = [tv_calls EXCEPT ![s] = @ + 1]
    /\ decode_calls' = [decode_calls EXCEPT ![s] = @ + 1]
    /\ tv_outcome' = [tv_outcome EXCEPT ![s] = "running"]
    /\ segments' = [segments EXCEPT ![s] = <<>>]
    /\ tv_text' = [tv_text EXCEPT ![s] = <<>>]
    /\ pc' = [pc EXCEPT ![s] = "tv_iter"]
    /\ UNCHANGED <<shared, tv_exc, mvars>>

\* Line 20 raises (unreadable or unsupported media).
TvCallFails(s, e) ==
    /\ pc[s] = "tv_call"
    /\ tv_calls' = [tv_calls EXCEPT ![s] = @ + 1]
    /\ decode_calls' = [decode_calls EXCEPT ![s] = @ + 1]
    /\ segments' = [segments EXCEPT ![s] = <<>>]
    /\ tv_text' = [tv_text EXCEPT ![s] = <<>>]
    /\ TvHandle(s, e)
    /\ UNCHANGED <<shared, req, video_path, model, ui>>

\* Lines 27-28: the sequence yields a segment with text t.
TvSegment(s, t) ==
    /\ pc[s] = "tv_iter"
    /\ Len(segments[s]) < MaxSegs
    /\ segments' = [segments EXCEPT ![s] = Append(@, t)]
    /\ tv_text' = [tv_text EXCEPT ![s] = append_segment(@, t)]
    /\ UNCHANGED <<pc, shared, tv_outcome, tv_exc, tv_calls, decode_calls,
                   mvars>>

\* Line 27 raises: the sequence fails after the segments consumed so far.
TvIterFails(s, e) ==
    /\ pc[s] = "tv_iter"
    /\ TvHandle(s, e)
    /\ UNCHANGED <<shared, segments, tv_text, tv_calls, decode_calls, req,
                   video_path, model, ui>>

\* Lines 27, 30: the sequence ends.
TvEnd(s) ==
    /\ pc[s] = "tv_iter"
    /\ TvReturn(s, tv_success(tv_text[s]))
    /\ UNCHANGED <<shared, segments, tv_text, tv_exc, tv_calls, decode_calls,
                   req, video_path, model, ui>>

(* ---------------------- main: lines 73-95 ------------------------------ *)

\* A failure branch without its return: control falls through to line 77.
after_failure_report_fallthrough == "success"

\* A failure branch that calls transcribe_video again.
after_failure_report_retry == "tv_call"

\* Line 75: return inside the try, so control passes to the finally.
after_failure_report == "finally"

\* A download whose data is the text with a final newline added.
download_button_newline(text) ==
    [shown |-> TRUE, data |-> text \o <<"\n">>,
     file_name |-> TranscriptFileName]

\* Lines 83-87: st.download_button("Download Transcript", transcript_text,
\* file_name="transcript.txt")
download_button(text) ==
    [shown |-> TRUE, data |-> text, file_name |-> TranscriptFileName]

\* Lines 73-75: a failure outcome is reported with st.error and main
\* returns; a success outcome goes on to line 77.
CheckResult(s) ==
    /\ pc[s] = "check"
    /\ IF ~transcribe_ok[s]
       THEN /\ ui' = [ui EXCEPT ![s].errors =
                        Append(@, main_failure_message(transcript_text[s]))]
            /\ pc' = [pc EXCEPT ![s] = after_failure_report]
       ELSE /\ pc' = [pc EXCEPT ![s] = "success"]
            /\ UNCHANGED ui
    /\ UNCHANGED <<shared, tvars, req, video_path, model, transcribe_ok,
                   transcript_text, exc, raised_at>>

\* Lines 77-78: st.success with the elapsed time.
ShowSuccess(s) ==
    /\ pc[s] = "success"
    /\ ui' = [ui EXCEPT ![s].success = TRUE]
    /\ pc' = [pc EXCEPT ![s] = "text_area"]
    /\ UNCHANGED <<shared, tvars, req, video_path, model, transcribe_ok,
                   transcript_text, exc, raised_at>>

\* Lines 81-82: st.text_area("Transcript", transcript_text, height=400)
ShowTextArea(s) ==
    /\ pc[s] = "text_area"
    /\ ui' = [ui EXCEPT ![s].text_area =
                [shown |-> TRUE, value |-> transcript_text[s]]]
    /\ pc' = [pc EXCEPT ![s] = "download"]
    /\ UNCHANGED <<shared, tvars, req, video_path, model, transcribe_ok,
                   transcript_text, exc, raised_at>>

\* Lines 83-87.
ShowDownload(s) ==
    /\ pc[s] = "download"
    /\ ui' = [ui EXCEPT ![s].download = download_button(transcript_text[s])]
    /\ pc' = [pc EXCEPT ![s] = "finally"]
    /\ UNCHANGED <<shared, tvars, req, video_path, model, transcribe_ok,
                   transcript_text, exc, raised_at>>

\* One of the calls of lines 78-87 raises.
DisplayFails(s, e) ==
    /\ pc[s] \in {"success", "text_area", "download"}
    /\ exc' = [exc EXCEPT ![s] = e]
    /\ raised_at' = [raised_at EXCEPT ![s] = "display"]
    /\ pc' = [pc EXCEPT ![s] = "except"]
    /\ UNCHANGED <<shared, tvars, req, video_path, model, transcribe_ok,
                   transcript_text, ui>>

\* Lines 89-91: st.error with the message, st.error with the trace.
Except(s) ==
    /\ pc[s] = "except"
    /\ ui' = [ui EXCEPT ![s].errors =
                @ \o <<unexpected_message(exc[s]), format_exc(exc[s])>>]
    /\ pc' = [pc EXCEPT ![s] = "finally"]
    /\ UNCHANGED <<shared, tvars, req, video_path, model, transcribe_ok,
                   transcript_text, exc, raised_at>>

\* Lines 92-95: the temporary file is unlinked if it exists; main returns.
Finally(s) ==
    /\ pc[s] = "finally"
    /\ fs' = IF os_path_exists(fs, video_path[s])
             THEN os_unlink(fs, video_path[s])
             ELSE fs
    /\ pc' = [pc EXCEPT ![s] = "returned"]
    /\ UNCHANGED <<requests, cache, lock, constructions, tvars, mvars>>

\* Line 95 raises (the file cannot be removed): the file stays, and the
\* exception, raised in the finally, leaves main.
FinallyUnlinkFails(s, e) ==
    /\ pc[s] = "finally"
    /\ os_path_exists(fs, video_path[s])
    /\ exc' = [exc EXCEPT ![s] = e]
    /\ raised_at' = [raised_at EXCEPT ![s] = "unlink"]
    /\ pc' = [pc EXCEPT ![s] = "raised"]
    /\ UNCHANGED <<shared, tvars, req, video_path, model, transcribe_ok,
                   transcript_text, ui>>

(* --------------------------- specifications ---------------------------- *)

\* The steps of one script run of session s that read or write what the
\* sessions share (the filesystem, the cache and its lock), and the steps
\* of the run in which nothing fails in between. E: the exceptions raised.
Flow(s, E) ==
    \/ Click(s)
    \/ Stage(s)
    \/ \E e \in E : StageCreateFails(s, e)
    \/ \E e \in E : StageWriteFails(s, e)
    \/ LoadLookup(s)
    \/ LoadAcquire(s)
    \/ LoadCompute(s)
    \/ \E e \in E : LoadComputeFails(s, e)
    \/ TvCall(s)
    \/ TvEnd(s)
    \/ CheckResult(s)
    \/ ShowSuccess(s)
    \/ ShowTextArea(s)
    \/ ShowDownload(s)
    \/ Except(s)
    \/ Finally(s)
    \/ \E e \in E : FinallyUnlinkFails(s, e)

\* What the model and the page calls may do besides: emit a segment with
\* a text of T, or raise an exception of E. These steps read and write
\* only the session's own variables.
Outcomes(s, T, E) ==
    \/ \E e \in E : TvCallFails(s, e)
    \/ \E t \in T : TvSegment(s, t)
    \/ \E e \in E : TvIterFails(s, e)
    \/ \E e \in E : DisplayFails(s, e)

\* One session, with every segment text and every exception.
Next == Flow(1, Exceptions) \/ Outcomes(1, SegTexts, Exceptions)
Spec == Init /\ [][Next]_vars

\* Several sessions interleaved on the shared filesystem and cache. Every
\* step that touches shared state is interleaved, with its failures; the
\* session-local outcomes, which lead to the same finally, are left to Spec.
NextConc == \E s \in Sessions : Flow(s, ConcExceptions)
SpecConc == Init /\ [][NextConc]_vars

(* ------------------------------ claims --------------------------------- *)

\* The staged files of session s's current request that exist.
StagedFiles(s) == { f \in fs : f.bytes = Upload(s, req[s]) }

\* main has ended: it returned, or an exception left it.
Ended(s) == pc[s] \in {"returned", "raised"}

\* Text sub occurs in text t.
Contains(t, sub) ==
    \E i \in 0..Len(t) :
        /\ i + Len(sub) <= Len(t)
        /\ SubSeq(t, i + 1, i + Len(sub)) = sub

\* The segment texts joined by single spaces.
RECURSIVE Join(_)
Join(segs) ==
    IF segs = <<>> THEN <<>>
    ELSE IF Len(segs) = 1 THEN segs[1]
    ELSE segs[1] \o <<" ">> \o Join(Tail(segs))

\* Each segment text followed by one space, concatenated.
RECURSIVE EachFollowedBySpace(_)
EachFollowedBySpace(segs) ==
    IF segs = <<>> THEN <<>>
    ELSE segs[1] \o <<" ">> \o EachFollowedBySpace(Tail(segs))

\* r is x trimmed: x is whitespace, r, whitespace, and r neither starts nor
\* ends with whitespace.
IsTrimOf(r, x) ==
    /\ \E i \in 0..Len(x) : \E j \in i..Len(x) :
        /\ r = SubSeq(x, i + 1, j)
        /\ \A k \in 1..i : x[k] \in Whitespace
        /\ \A k \in (j + 1)..Len(x) : x[k] \in Whitespace
    /\ r # <<>> => r[1] \notin Whitespace /\ r[Len(r)] \notin Whitespace

\* C1: when main returns, the staged temporary file of the request no
\* longer exists, whether transcribe_video succeeded or failed or an
\* exception was raised while obtaining the model, transcribing or
\* displaying.
C1_StagedFileGoneOnReturn ==
    \A s \in Sessions : pc[s] = "returned" => StagedFiles(s) = {}

\* C1's case: main returned after an exception raised while displaying, the
\* file having been staged.
C1_Witness ==
    \E s \in Sessions :
        /\ pc[s] = "returned"
        /\ raised_at[s] = "display"
        /\ video_path[s] # 0

\* C2, as claimed: every exception raised in main outside transcribe_video's
\* try, the ones of staging and of cleanup included, is caught, reported
\* with message and trace, and followed by the removal of the staged file;
\* none leaves main.
C2_OrchestratorCatchesEveryException ==
    \A s \in Sessions :
        (Ended(s) /\ raised_at[s] # "none") =>
            /\ pc[s] = "returned"
            /\ Contains(ui[s].errors,
                        <<unexpected_message(exc[s]), format_exc(exc[s])>>)
            /\ StagedFiles(s) = {}

\* C3: transcribe_video never raises; it returns (True, text) with text a
\* string, or (False, diagnostic) with a non-empty diagnostic that contains
\* the message of the exception.
C3_TranscribeVideoNeverRaises ==
    \A s \in Sessions :
        /\ tv_outcome[s] # "raised"
        /\ tv_outcome[s] = "returned" =>
            IF transcribe_ok[s]
            THEN /\ tv_exc[s] = NoExc
                 /\ transcript_text[s] \in Seq({"a", "b", " "})
            ELSE /\ tv_exc[s] # NoExc
                 /\ transcript_text[s] # <<>>
                 /\ Contains(transcript_text[s], tv_exc[s].msg)
                 /\ Contains(transcript_text[s], format_exc(tv_exc[s]))

\* C3's case: the segment sequence raised an OSError with a message after a
\* segment was consumed, and the call returned.
C3_Witness ==
    \E s \in Sessions :
        /\ tv_outcome[s] = "returned"
        /\ tv_exc[s] = [type |-> OSErrorName, msg |-> <<"e">>]
        /\ segments[s] # <<>>

\* C4: on success the returned text is the segment texts, in emission
\* order, joined by single spaces and trimmed; equivalently each text
\* followed by a space, concatenated, and trimmed; with no segment it is the
\* empty string.
C4_ConcatenationLaw ==
    \A s \in Sessions :
        (tv_outcome[s] = "returned" /\ transcribe_ok[s]) =>
            /\ IsTrimOf(transcript_text[s], Join(segments[s]))
            /\ IsTrimOf(transcript_text[s], EachFollowedBySpace(segments[s]))
            /\ segments[s] = <<>> => transcript_text[s] = <<>>

\* C4's case: two segments, the second with a leading space, are joined and
\* the result is trimmed at both ends.
C4_Witness ==
    \E s \in Sessions :
        /\ tv_outcome[s] = "returned" /\ transcribe_ok[s]
        /\ segments[s] = << <<" ", "a">>, <<" ", "a">> >>
        /\ transcript_text[s] = <<"a", " ", " ", "a">>

\* C5: once the segment sequence (or the decode call) has raised, the call
\* returns a failure whose diagnostic is made from the exception alone, and
\* no transcript text is displayed or offered for download.
C5_NoPartialTranscript ==
    \A s \in Sessions :
        (tv_exc[s] # NoExc) =>
            /\ ~transcribe_ok[s]
            /\ tv_outcome[s] = "returned" =>
                   transcript_text[s] = tv_diagnostic(tv_exc[s])
            /\ ~ui[s].text_area.shown
            /\ ~ui[s].download.shown
            /\ \A i \in 1..Len(ui[s].errors) :
                   ui[s].errors[i] \in
                       { main_failure_message(tv_diagnostic(tv_exc[s])),
                         unexpected_message(exc[s]), format_exc(exc[s]) }

\* C5's case: the sequence raised after two segments with text, and main
\* has returned.
C5_Witness ==
    \E s \in Sessions :
        /\ tv_exc[s] # NoExc
        /\ Len(segments[s]) = 2
        /\ strip(tv_text[s]) # <<>>
        /\ pc[s] = "returned"

\* C6: after a failure outcome main reports the diagnostic and does none of
\* the success steps: no completion message, no text area, no download;
\* and the early return passes through the removal of the staged file.
C6_FailureAbortsSuccessSteps ==
    \A s \in Sessions :
        (tv_outcome[s] = "returned" /\ ~transcribe_ok[s]) =>
            /\ pc[s] \in {"check", "finally", "returned", "raised"}
            /\ ~ui[s].success
            /\ ~ui[s].text_area.shown
            /\ ~ui[s].download.shown
            /\ pc[s] # "check" =>
                   ui[s].errors = <<main_failure_message(transcript_text[s])>>
            /\ pc[s] = "returned" => StagedFiles(s) = {}
            /\ pc[s] = "raised" => raised_at[s] = "unlink"

\* C6's case: main has returned after a failure outcome.
C6_Witness ==
    \E s \in Sessions :
        /\ tv_outcome[s] = "returned" /\ ~transcribe_ok[s]
        /\ pc[s] = "returned"
        /\ video_path[s] # 0

\* C7: the WhisperModel is constructed at most once, the cache entry is
\* never replaced or evicted, and every call of load_whisper_model obtains
\* that one handle.
C7_ModelConstructedOnce ==
    /\ constructions <= 1
    /\ cache = constructions
    /\ \A s \in Sessions : model[s] # 0 => model[s] = 1

\* C7's case: two sessions raced on the first request; one holds the lock
\* after its miss while the other has already stored the model, and holds it.
C7_Witness ==
    \E s, t \in Sessions :
        /\ s # t
        /\ pc[s] = "load_compute" /\ lock = s
        /\ cache = 1
        /\ model[t] = 1

\* Session s holds a staged file that its request still uses.
InFlight(s) ==
    pc[s] \in {"load", "load_lock", "load_compute", "tv_call", "tv_iter",
               "check", "success", "text_area", "download", "except",
               "finally"}

\* C8: each in-flight request owns exactly one staged file, whole and its
\* own; no two in-flight requests share a path; no name holds two files.
C8_StagedFilesDoNotCollide ==
    /\ \A s \in Sessions :
        /\ Cardinality(StagedFiles(s)) <= 1
        /\ InFlight(s) =>
            StagedFiles(s) = { [path |-> video_path[s],
                                bytes |-> Upload(s, req[s]),
                                complete |-> TRUE] }
    /\ \A s, t \in Sessions :
        (s # t /\ InFlight(s) /\ InFlight(t)) => video_path[s] # video_path[t]
    /\ \A f, g \in fs : f.path = g.path => f = g

\* C8's case: one session is transcribing from its staged file while
\* another, which started later, has cleaned up and returned.
C8_Witness ==
    \E s, t \in Sessions :
        /\ s # t
        /\ pc[s] = "tv_iter"
        /\ pc[t] = "returned" /\ video_path[t] # 0 /\ req[t] > req[s]
        /\ StagedFiles(s) # {}

\* C9: whenever a download is offered, its content is the text shown in the
\* text area, which is the trimmed text transcribe_video returned, and its
\* file name is transcript.txt.
C9_DownloadEqualsDisplay ==
    \A s \in Sessions :
        ui[s].download.shown =>
            /\ ui[s].text_area.shown
            /\ ui[s].download.data = ui[s].text_area.value
            /\ ui[s].download.data = transcript_text[s]
            /\ IsTrimOf(ui[s].download.data, tv_text[s])
            /\ ui[s].download.file_name = TranscriptFileName

\* C9's case: a download of a non-empty transcript is offered.
C9_Witness ==
    \E s \in Sessions :
        /\ ui[s].download.shown
        /\ ui[s].download.data = <<"a", " ", "b">>

\* C10, as claimed: each request invokes transcribe_video exactly once and
\* each call decodes at most once (stated for the requests that returned).
C10_ExactlyOneCallPerRequest ==
    \A s \in Sessions :
        pc[s] = "returned" => tv_calls[s] = 1 /\ decode_calls[s] <= 1

\* C10, amended: a request invokes transcribe_video at most once, exactly
\* once if it obtained the model handle and not at all otherwise; each call
\* decodes once; after a failure there is no second attempt.
C10_AtMostOneCallNoRetry ==
    \A s \in Sessions :
        /\ tv_calls[s] <= 1
        /\ decode_calls[s] = tv_calls[s]
        /\ (Ended(s) /\ model[s] # 0) => tv_calls[s] = 1
        /\ model[s] = 0 => tv_calls[s] = 0

\* C10's case: main has returned after a failed transcription, having
\* called once.
C10_Witness ==
    \E s \in Sessions :
        /\ pc[s] = "returned"
        /\ tv_outcome[s] = "returned" /\ ~transcribe_ok[s]
        /\ tv_calls[s] = 1
====
